---- MODULE Spec2Model ----
(***************************************************************************)
(* Model of opts_list.py: get_android_devices (the device lister),         *)
(* launch_scrcpy (the mirror launcher) and the command-line driver.        *)
(*                                                                         *)
(* Python strings are sequences of one-character strings, so that          *)
(* splitlines(), strip(), re.match(), int() and str() are computed the way *)
(* the interpreter computes them.  None is the empty sequence Null and a   *)
(* present value x is the one-element sequence <<x>>.                      *)
(***************************************************************************)
EXTENDS Integers, Sequences, FiniteSets, TLC

\* ---------------------------------------------------------------- bounds
\* Largest number of device entries in one `adb devices -l` listing.
MaxDevices == 2

\* ------------------------------------------------------- character classes
Digits == <<"0", "1", "2", "3", "4", "5", "6", "7", "8", "9">>

DigitChars == {Digits[i] : i \in 1..10}

LetterChars ==
    {"a", "b", "c", "d", "e", "f", "g", "h", "i", "j", "k", "l", "m",
     "n", "o", "p", "q", "r", "s", "t", "u", "v", "w", "x", "y", "z",
     "A", "B", "C", "D", "E", "F", "G", "H", "I", "J", "K", "L", "M",
     "N", "O", "P", "Q", "R", "S", "T", "U", "V", "W", "X", "Y", "Z"}

\* [\w\d] of the regular expression: letters, digits and the underscore.
WordChars == LetterChars \cup DigitChars \cup {"_"}

\* \s of the regular expression, and the characters str.strip() removes.
SpaceChars == {" ", "\t", "\n", "\r"}

\* The line boundaries str.splitlines() splits at.
LineBreaks == {"\n", "\r"}

Null == <<>>

Some(x) == <<x>>

\* ------------------------------------------------------ string operations
\* Smallest and largest element of a non-empty set of integers.
MinOf(S) == CHOOSE x \in S : \A y \in S : x <= y

MaxOf(S) == CHOOSE x \in S : \A y \in S : y <= x

\* Positions of the characters of s that are not whitespace.
NonSpace(s) == {i \in 1..Len(s) : s[i] \notin SpaceChars}

\* str.strip(): s from its first to its last non-whitespace character.
Strip(s) ==
    IF NonSpace(s) = {} THEN <<>>
    ELSE SubSeq(s, MinOf(NonSpace(s)), MaxOf(NonSpace(s)))

\* str.startswith(c) for a one-character prefix
StartsWith(s, c) == s # <<>> /\ s[1] = c

\* str.splitlines(): the pieces between line boundaries, "\r\n" counting as
\* one boundary, and no empty last piece after a final boundary.
RECURSIVE SplitLines(_)
SplitLines(s) ==
    LET brk == {i \in 1..Len(s) : s[i] \in LineBreaks} IN
    IF s = <<>> THEN <<>>
    ELSE IF brk = {} THEN <<s>>
    ELSE LET i    == MinOf(brk)
             step == IF s[i] = "\r" /\ i < Len(s) /\ s[i + 1] = "\n"
                     THEN 2 ELSE 1
         IN  <<SubSeq(s, 1, i - 1)>> \o SplitLines(SubSeq(s, i + step, Len(s)))

\* seq[1:]
Slice1(seq) == IF seq = <<>> THEN <<>> ELSE Tail(seq)

\* str.join: the lines of `ls`, each followed by a newline.
RECURSIVE JoinLines(_)
JoinLines(ls) ==
    IF ls = <<>> THEN <<>> ELSE ls[1] \o <<"\n">> \o JoinLines(Tail(ls))

\* ------------------------------------------------------------ int and str
DigitValue(c) == CHOOSE d \in 0..9 : Digits[d + 1] = c

RECURSIVE DigitsValue(_)
DigitsValue(s) ==
    IF s = <<>> THEN 0
    ELSE 10 * DigitsValue(SubSeq(s, 1, Len(s) - 1)) + DigitValue(s[Len(s)])

\* The digit groups int() accepts: digits, single underscores only between
\* two digits.
IsDigitString(s) ==
    /\ s # <<>>
    /\ \A i \in 1..Len(s) : s[i] \in DigitChars \cup {"_"}
    /\ s[1] # "_"
    /\ s[Len(s)] # "_"
    /\ \A i \in 1..(Len(s) - 1) : ~(s[i] = "_" /\ s[i + 1] = "_")

RECURSIVE DropUnderscores(_)
DropUnderscores(s) ==
    IF s = <<>> THEN <<>>
    ELSE IF s[1] = "_" THEN DropUnderscores(Tail(s))
         ELSE <<s[1]>> \o DropUnderscores(Tail(s))

\* int(s): surrounding whitespace ignored, an optional sign, then a digit
\* string; anything else is a ValueError (ok = FALSE).
ParseInt(s) ==
    LET t    == Strip(s)
        sgn  == t # <<>> /\ t[1] \in {"+", "-"}
        body == IF sgn THEN Tail(t) ELSE t
    IN  IF IsDigitString(body)
        THEN [ok |-> TRUE,
              val |-> IF sgn /\ t[1] = "-"
                      THEN 0 - DigitsValue(DropUnderscores(body))
                      ELSE DigitsValue(DropUnderscores(body))]
        ELSE [ok |-> FALSE, val |-> 0]

RECURSIVE NatToStr(_)
NatToStr(n) ==
    IF n < 10 THEN <<Digits[n + 1]>>
    ELSE NatToStr(n \div 10) \o <<Digits[(n % 10) + 1]>>

\* str(n) for an int
IntToStr(n) == IF n < 0 THEN <<"-">> \o NatToStr(0 - n) ELSE NatToStr(n)

\* ------------------------------------------------------- string literals
\* "adb"
S_adb ==
    <<"a", "d", "b">>

\* "devices"
S_devices ==
    <<"d", "e", "v", "i", "c", "e", "s">>

\* "-l"
S_l ==
    <<"-", "l">>

\* "-s"
S_s ==
    <<"-", "s">>

\* "shell"
S_shell ==
    <<"s", "h", "e", "l", "l">>

\* "getprop"
S_getprop ==
    <<"g", "e", "t", "p", "r", "o", "p">>

\* "ro.build.version.sdk"
S_sdk_prop ==
    <<"r", "o", ".", "b", "u", "i", "l", "d", ".", "v", "e", "r", "s", "i",
      "o", "n", ".", "s", "d", "k">>

\* "device"
S_device ==
    <<"d", "e", "v", "i", "c", "e">>

\* "scrcpy"
S_scrcpy ==
    <<"s", "c", "r", "c", "p", "y">>

\* "--video-codec"
S_video_codec ==
    <<"-", "-", "v", "i", "d", "e", "o", "-", "c", "o", "d", "e", "c">>

\* "-m"
S_m ==
    <<"-", "m">>

\* "--max-fps"
S_max_fps ==
    <<"-", "-", "m", "a", "x", "-", "f", "p", "s">>

\* "--no-audio"
S_no_audio ==
    <<"-", "-", "n", "o", "-", "a", "u", "d", "i", "o">>

\* "--keyboard=uhid"
S_keyboard_uhid ==
    <<"-", "-", "k", "e", "y", "b", "o", "a", "r", "d", "=", "u", "h", "i",
      "d">>

\* "default"
S_default ==
    <<"d", "e", "f", "a", "u", "l", "t">>

\* "uhid"
S_uhid ==
    <<"u", "h", "i", "d">>

\* ------------------------------------------- re.match on a listing line
\* The ways r'([\w\d]+)\s+device(.*)' matches at the start of `line`:
\* <<i, j>> where line[1..i] is the word-character group, line[i+1..j] the
\* whitespace run and "device" follows at j+1; (.*) takes whatever is left.
MatchSplits(line) ==
    {ij \in (1..Len(line)) \X (1..Len(line)) :
        /\ ij[1] < ij[2]
        /\ \A k \in 1..ij[1] : line[k] \in WordChars
        /\ \A k \in (ij[1] + 1)..ij[2] : line[k] \in SpaceChars
        /\ ij[2] + Len(S_device) <= Len(line)
        /\ SubSeq(line, ij[2] + 1, ij[2] + Len(S_device)) = S_device}

\* re.match(...) is not None
ReMatch(line) == MatchSplits(line) # {}

\* match.group(1): the quantifier is greedy, so the longest group that
\* still lets the rest of the pattern match.
Group1(line) ==
    SubSeq(line, 1, MaxOf({ij[1] : ij \in MatchSplits(line)}))

\* The condition of the loop body: a non-blank line that is not a daemon
\* notice and that the pattern matches.
LineSelected(line) ==
    /\ Strip(line) # <<>>
    /\ ~StartsWith(line, "*")
    /\ ReMatch(line)

\* --------------------------------------------------- get_android_devices
AudioMinSdk == 30

\* The comparison written with > in place of >=.
AudioPossibleStrict(sdk_version) == sdk_version > AudioMinSdk

AudioPossible(sdk_version) == sdk_version >= AudioMinSdk

DeviceRecord(serial, line, sdk_version) ==
    [serial         |-> serial,
     audio_possible |-> AudioPossible(sdk_version),
     full_info      |-> Strip(line),
     sdk_version    |-> sdk_version]

ListCommand == <<S_adb, S_devices, S_l>>

QueryCommand(serial) ==
    <<S_adb, S_s, serial, S_shell, S_getprop, S_sdk_prop>>

\* The query's handler without ValueError.
InnerCatchesProcessOnly(e) == e \in {"CalledProcessError"}

\* except (subprocess.CalledProcessError, ValueError) around the query
InnerCatches(e) == e \in {"CalledProcessError", "ValueError"}

\* The function's handlers without FileNotFoundError.
OuterCatchesProcessOnly(e) == e \in {"CalledProcessError"}

\* except FileNotFoundError / except subprocess.CalledProcessError around
\* the whole function body
OuterCatches(e) == e \in {"FileNotFoundError", "CalledProcessError"}

QueryErrorLine(serial, e) ==
    <<"Error getting SDK version for {serial}: {e}", <<serial, <<e>>>>>>

OuterErrorLine(e) ==
    IF e = "FileNotFoundError"
    THEN <<"Error: adb not found. Make sure it's in your PATH.", <<>>>>
    ELSE <<"Error communicating with adb: {e}", <<<<e>>>>>>

\* What subprocess.check_output raises for a finished child: exit = -1
\* stands for an executable that could not be started.
CheckOutputRaises(exit) ==
    IF exit = -1 THEN "FileNotFoundError"
    ELSE IF exit # 0 THEN "CalledProcessError"
    ELSE "none"

\* What int(output.strip()) raises
IntRaises(out) == IF ParseInt(Strip(out)).ok THEN "none" ELSE "ValueError"

\* ---------------------------------------------------------- environment
\* "List of devices attached"
HeaderLine ==
    <<"L", "i", "s", "t", " ", "o", "f", " ", "d", "e", "v", "i", "c", "e",
      "s", " ", "a", "t", "t", "a", "c", "h", "e", "d">>

\* "* daemon started successfully *"
DaemonLine ==
    <<"*", " ", "d", "a", "e", "m", "o", "n", " ", "s", "t", "a", "r", "t",
      "e", "d", " ", "s", "u", "c", "c", "e", "s", "s", "f", "u", "l", "l",
      "y", " ", "*">>

\* Device entries of `adb devices -l`: serial, state, description.
\* "R58M   device usb:1-1"
EntryUsb ==
    <<"R", "5", "8", "M", " ", " ", " ", "d", "e", "v", "i", "c", "e", " ",
      "u", "s", "b", ":", "1", "-", "1">>

\* "ZX1G device"
EntryUsb2 ==
    <<"Z", "X", "1", "G", " ", "d", "e", "v", "i", "c", "e">>

\* "emulator-5554 device"
EntryEmulator ==
    <<"e", "m", "u", "l", "a", "t", "o", "r", "-", "5", "5", "5", "4", " ",
      "d", "e", "v", "i", "c", "e">>

\* "R58N   offline"
EntryOffline ==
    <<"R", "5", "8", "N", " ", " ", " ", "o", "f", "f", "l", "i", "n", "e">>

\* "ZX1H   unauthorized usb:1-2"
EntryUnauthorized ==
    <<"Z", "X", "1", "H", " ", " ", " ", "u", "n", "a", "u", "t", "h", "o",
      "r", "i", "z", "e", "d", " ", "u", "s", "b", ":", "1", "-", "2">>

EntryLines ==
    {EntryUsb, EntryUsb2, EntryEmulator, EntryOffline, EntryUnauthorized}

\* The entries of one listing: up to MaxDevices different devices out of E,
\* in any order.
EntrySeqs(E) ==
    UNION {{es \in [1..n -> E] :
               \A i, j \in 1..n : i # j => es[i] # es[j]} : n \in 0..MaxDevices}

\* The standard output of `adb devices -l`: an optional daemon notice, the
\* header, the entries and an empty line.
ListingOutputs(Pre, E) ==
    {JoinLines(pre \o <<HeaderLine>> \o es \o <<<<>>>>) :
        pre \in Pre, es \in EntrySeqs(E)}

\* adb as the program finds it: missing, failing to list, or listing.
AdbStatesOf(Pre, E) ==
    {[exit |-> -1, out |-> <<>>], [exit |-> 1, out |-> <<>>]}
    \cup {[exit |-> 0, out |-> o] : o \in ListingOutputs(Pre, E)}

\* The device bridge get_android_devices is examined with.
AdbStates == AdbStatesOf({<<>>, <<DaemonLine>>}, EntryLines)

\* The device bridge the whole program is examined with.
DriverAdbStates == AdbStatesOf({<<>>}, {EntryUsb, EntryEmulator, EntryOffline})

\* "29\n"
Sdk29Out ==
    <<"2", "9", "\n">>

\* "30\n"
Sdk30Out ==
    <<"3", "0", "\n">>

\* "\n"
SdkEmptyOut ==
    <<"\n">>

\* Outcomes of `adb -s <serial> shell getprop ro.build.version.sdk`.
QueryOutcomes ==
    {[exit |-> 1, out |-> <<>>],
     [exit |-> 0, out |-> Sdk29Out],
     [exit |-> 0, out |-> Sdk30Out],
     [exit |-> 0, out |-> SdkEmptyOut]}

\* ----------------------------------------------------------- launch_scrcpy
\* Truth value of an optional string / optional int (None, "" and 0 are
\* false).
TruthyStr(opt) == opt # Null /\ opt[1] # <<>>

TruthyInt(opt) == opt # Null /\ opt[1] # 0

\* The argument list with the keyboard flag added for any non-empty mode.
BuildCommandAnyKeyboard(serial, video_codec, max_size, max_fps, audio, keyboard_mode) ==
    <<S_scrcpy, S_s, serial>>
    \o (IF TruthyStr(video_codec)
        THEN <<S_video_codec, video_codec[1]>> ELSE <<>>)
    \o (IF TruthyInt(max_size)
        THEN <<S_m, IntToStr(max_size[1])>> ELSE <<>>)
    \o (IF TruthyInt(max_fps)
        THEN <<S_max_fps, IntToStr(max_fps[1])>> ELSE <<>>)
    \o (IF ~audio THEN <<S_no_audio>> ELSE <<>>)
    \o (IF keyboard_mode # <<>> THEN <<S_keyboard_uhid>> ELSE <<>>)

\* The argument list launch_scrcpy builds.
BuildCommand(serial, video_codec, max_size, max_fps, audio, keyboard_mode) ==
    <<S_scrcpy, S_s, serial>>
    \o (IF TruthyStr(video_codec)
        THEN <<S_video_codec, video_codec[1]>> ELSE <<>>)
    \o (IF TruthyInt(max_size)
        THEN <<S_m, IntToStr(max_size[1])>> ELSE <<>>)
    \o (IF TruthyInt(max_fps)
        THEN <<S_max_fps, IntToStr(max_fps[1])>> ELSE <<>>)
    \o (IF ~audio THEN <<S_no_audio>> ELSE <<>>)
    \o (IF keyboard_mode = S_uhid THEN <<S_keyboard_uhid>> ELSE <<>>)

\* The launcher's handlers without CalledProcessError.
LaunchCatchesNotFoundOnly(e) == e \in {"FileNotFoundError"}

\* except FileNotFoundError / except subprocess.CalledProcessError around
\* subprocess.run
LaunchCatches(e) == e \in {"FileNotFoundError", "CalledProcessError"}

LaunchErrorLine(e) ==
    IF e = "FileNotFoundError"
    THEN <<"Error: scrcpy not found. Make sure it's installed and in your PATH.",
           <<>>>>
    ELSE <<"Error running scrcpy: {e}", <<<<e>>>>>>

CommandEchoLine(command) == <<"Running command: {' '.join(command)}", command>>

\* Outcomes of running scrcpy: not found, non-zero exit, success.
ScrcpyOutcomes == {-1, 1, 0}

\* ------------------------------------------------------------ the driver
\* Values given on the command line for each option; Null: not given.
SerialArgs == {Null, Some(<<>>), Some(<<"R", "5", "8", "M">>), Some(<<"e", "m", "u", "l", "a", "t", "o", "r", "-", "5", "5", "5", "4">>)}

VideoCodecArgs == {Null, Some(<<"h", "2", "6", "4">>)}

MaxSizeArgs == {Null, Some(<<"0">>), Some(<<"1", "0", "2", "4">>), Some(<<"b", "i", "g">>)}

MaxFpsArgs == {Null, Some(<<"6", "0">>)}

KeyboardArgs == {Null, Some(S_default), Some(S_uhid), Some(<<"a", "o", "a">>)}

Argvs ==
    [serial        : SerialArgs,
     video_codec   : VideoCodecArgs,
     max_size      : MaxSizeArgs,
     max_fps       : MaxFpsArgs,
     no_audio      : BOOLEAN,
     keyboard_mode : KeyboardArgs,
     verbose       : BOOLEAN,
     list_devices  : BOOLEAN]

\* The namespace before any option is read: argparse's defaults.
DefaultArgs ==
    [serial        |-> Null,
     video_codec   |-> Null,
     max_size      |-> Null,
     max_fps       |-> Null,
     no_audio      |-> FALSE,
     keyboard_mode |-> S_default,
     verbose       |-> FALSE,
     list_devices  |-> FALSE]

\* choices=["default", "uhid"]
KeyboardChoices == {S_default, S_uhid}

\* type=int on an option that may be absent
IntArgOk(opt) == opt = Null \/ ParseInt(opt[1]).ok

IntArg(opt) == IF opt = Null THEN Null ELSE Some(ParseInt(opt[1]).val)

\* parse_args() rejects the command line (and exits with status 2)
ArgvRejected(a) ==
    \/ ~IntArgOk(a.max_size)
    \/ ~IntArgOk(a.max_fps)
    \/ a.keyboard_mode # Null /\ a.keyboard_mode[1] \notin KeyboardChoices

\* The namespace parse_args() returns for an accepted command line.
ParsedArgs(a) ==
    [serial        |-> a.serial,
     video_codec   |-> a.video_codec,
     max_size      |-> IntArg(a.max_size),
     max_fps       |-> IntArg(a.max_fps),
     no_audio      |-> a.no_audio,
     keyboard_mode |-> IF a.keyboard_mode = Null
                       THEN DefaultArgs.keyboard_mode
                       ELSE a.keyboard_mode[1],
     verbose       |-> a.verbose,
     list_devices  |-> a.list_devices]

ArgparseErrorLine == <<"usage: ... error: ...", <<>>>>

\* if args.list_devices
ListMode(a) == a.list_devices

\* if not args.serial
SerialMissing(a) == ~TruthyStr(a.serial)

MissingSerialLines ==
    <<<<"Error: Serial number (-s) is required unless --list-devices is used.",
        <<>>>>,
      <<"usage: ...", <<>>>>>>

\* What list mode prints for one device.
DeviceLines(d) ==
    <<<<"Device: {full_info}", d.full_info>>,
      <<"  Serial: {serial}", d.serial>>,
      <<"  SDK Version: {sdk_version}", IntToStr(d.sdk_version)>>,
      <<"  Audio Forwarding Possible: {Yes|No}",
        <<IF d.audio_possible THEN "Yes" ELSE "No">>>>,
      <<"--------------------", <<>>>>>>

RECURSIVE AllDeviceLines(_)
AllDeviceLines(ds) ==
    IF ds = <<>> THEN <<>>
    ELSE DeviceLines(ds[1]) \o AllDeviceLines(Tail(ds))

\* List mode without the message for an empty list.
ListOutputDevicesOnly(ds) == AllDeviceLines(ds)

\* What list mode prints.
ListOutput(ds) ==
    IF ds # <<>> THEN AllDeviceLines(ds)
    ELSE <<<<"No devices found.", <<>>>>>>

\* What the launch path prints per device when verbose.
FoundLine(d) ==
    <<"Found device: {full_info} (Audio: {Possible|Not Possible})",
      <<d.full_info,
        <<IF d.audio_possible THEN "Possible" ELSE "Not Possible">>>>>>

FoundLines(ds) == [i \in 1..Len(ds) |-> FoundLine(ds[i])]

\* The test of the device list left out.
ShouldLaunchAlways(ds) == TRUE

\* if devices
ShouldLaunch(ds) == ds # <<>>

\* The first listed device's serial in place of the user's.
LaunchSerialFirstListed(a, ds) == ds[1].serial

\* The serial handed to launch_scrcpy.
LaunchSerial(a, ds) == a.serial[1]

\* The flag handed over without negation.
LaunchAudioUnnegated(a) == a.no_audio

\* The audio argument handed to launch_scrcpy.
LaunchAudio(a) == ~a.no_audio

\* ------------------------------------------------------------------ state
VARIABLES
    pc,            \* position of the program
    argv,          \* the command line
    args,          \* the parsed namespace
    adb,           \* the device bridge as found: exit status and listing
    verbose,       \* parameter of get_android_devices
    lines,         \* adb_output.splitlines()[1:]
    idx,           \* position of the loop in lines
    devices,       \* the list get_android_devices builds
    main_devices,  \* the driver's devices: what get_android_devices returned
    stdout,        \* lines printed to standard output
    stderr,        \* lines printed to standard error
    calls,         \* the child processes run so far, in order
    exitCode       \* exit status of the program, -1 while it runs; an
                   \* exception no handler catches ends it with status 1

vars ==
    <<pc, argv, args, adb, verbose, lines, idx, devices, main_devices,
      stdout, stderr, calls, exitCode>>

Call(cmd, exit, out) == [cmd |-> cmd, exit |-> exit, out |-> out]

\* State shared by both initial conditions.
InitCommon ==
    /\ lines = <<>>
    /\ idx = 1
    /\ devices = <<>>
    /\ main_devices = <<>>
    /\ stdout = <<>>
    /\ stderr = <<>>
    /\ calls = <<>>
    /\ exitCode = -1

\* The program started with some command line.
Init ==
    /\ pc = "start"
    /\ argv \in Argvs
    /\ args = DefaultArgs
    /\ verbose = FALSE
    /\ adb \in DriverAdbStates
    /\ InitCommon

\* get_android_devices called on its own.
InitLister ==
    /\ pc = "gad_call"
    /\ argv = DefaultArgs
    /\ args = DefaultArgs
    /\ verbose \in BOOLEAN
    /\ adb \in AdbStates
    /\ InitCommon

\* ---------------------------------------------------- get_android_devices
\* devices = []; adb devices -l; on failure the outer handlers.
GadList ==
    /\ pc = "gad_call"
    /\ LET e == CheckOutputRaises(adb.exit) IN
        /\ calls' = Append(calls, Call(ListCommand, adb.exit, adb.out))
        /\ IF e = "none"
           THEN /\ lines' = Slice1(SplitLines(adb.out))
                /\ idx' = 1
                /\ devices' = <<>>
                /\ pc' = "gad_loop"
                /\ UNCHANGED <<main_devices, stderr, exitCode>>
           ELSE IF OuterCatches(e)
           THEN /\ stderr' = Append(stderr, OuterErrorLine(e))
                /\ main_devices' = <<>>
                /\ devices' = <<>>
                /\ pc' = "gad_ret"
                /\ UNCHANGED <<lines, idx, exitCode>>
           ELSE /\ pc' = "crashed"
                /\ exitCode' = 1
                /\ devices' = <<>>
                /\ UNCHANGED <<lines, idx, main_devices, stderr>>
    /\ UNCHANGED <<argv, args, adb, verbose, stdout>>

\* One iteration of the loop over the listing: a selected line has its
\* device queried for the API level and appended, or the query's failure
\* handled.
GadLine ==
    /\ pc = "gad_loop"
    /\ idx <= Len(lines)
    /\ LET line == lines[idx] IN
        IF LineSelected(line)
        THEN \E o \in QueryOutcomes :
               LET serial == Group1(line)
                   e1     == CheckOutputRaises(o.exit)
                   e      == IF e1 # "none" THEN e1 ELSE IntRaises(o.out)
               IN
                /\ calls' = Append(calls, Call(QueryCommand(serial), o.exit, o.out))
                /\ IF e = "none"
                   THEN /\ devices' = Append(devices,
                                DeviceRecord(serial, line, ParseInt(Strip(o.out)).val))
                        /\ idx' = idx + 1
                        /\ UNCHANGED <<pc, main_devices, stderr, exitCode>>
                   ELSE IF InnerCatches(e)
                   THEN /\ stderr' = IF verbose
                                     THEN Append(stderr, QueryErrorLine(serial, e))
                                     ELSE stderr
                        /\ idx' = idx + 1
                        /\ UNCHANGED <<pc, devices, main_devices, exitCode>>
                   ELSE IF OuterCatches(e)
                   THEN /\ stderr' = Append(stderr, OuterErrorLine(e))
                        /\ main_devices' = <<>>
                        /\ pc' = "gad_ret"
                        /\ UNCHANGED <<idx, devices, exitCode>>
                   ELSE /\ pc' = "crashed"
                        /\ exitCode' = 1
                        /\ UNCHANGED <<idx, devices, main_devices, stderr>>
        ELSE /\ idx' = idx + 1
             /\ UNCHANGED <<pc, devices, main_devices, stderr, calls, exitCode>>
    /\ UNCHANGED <<argv, args, adb, verbose, lines, stdout>>

\* return devices
GadReturn ==
    /\ pc = "gad_loop"
    /\ idx > Len(lines)
    /\ main_devices' = devices
    /\ pc' = "gad_ret"
    /\ UNCHANGED <<argv, args, adb, verbose, lines, idx, devices, stdout,
                   stderr, calls, exitCode>>

\* --------------------------------------------------------------- __main__
\* args = parser.parse_args()
ParseArgs ==
    /\ pc = "start"
    /\ IF ArgvRejected(argv)
       THEN /\ stderr' = Append(stderr, ArgparseErrorLine)
            /\ exitCode' = 2
            /\ pc' = "rejected"
            /\ UNCHANGED args
       ELSE /\ args' = ParsedArgs(argv)
            /\ pc' = "main"
            /\ UNCHANGED <<stderr, exitCode>>
    /\ UNCHANGED <<argv, adb, verbose, lines, idx, devices, main_devices,
                   stdout, calls>>

\* The branches up to the call of get_android_devices, or exit(1) when the
\* serial is missing.
Main ==
    /\ pc = "main"
    /\ IF ~ListMode(args) /\ SerialMissing(args)
       THEN /\ stdout' = stdout \o MissingSerialLines
            /\ exitCode' = 1
            /\ pc' = "done"
            /\ UNCHANGED verbose
       ELSE /\ verbose' = args.verbose
            /\ pc' = "gad_call"
            /\ UNCHANGED <<stdout, exitCode>>
    /\ UNCHANGED <<argv, args, adb, lines, idx, devices, main_devices,
                   stderr, calls>>

\* List mode after get_android_devices returned: print and exit(0).
PrintDevices ==
    /\ pc = "gad_ret"
    /\ ListMode(args)
    /\ stdout' = stdout \o ListOutput(main_devices)
    /\ exitCode' = 0
    /\ pc' = "done"
    /\ UNCHANGED <<argv, args, adb, verbose, lines, idx, devices,
                   main_devices, stderr, calls>>

\* Launch path after get_android_devices returned: launch_scrcpy when there
\* are devices and run off the end of the script, else exit(1).
LaunchOrExit ==
    /\ pc = "gad_ret"
    /\ ~ListMode(args)
    /\ IF ShouldLaunch(main_devices)
       THEN \E r \in ScrcpyOutcomes :
              LET command == BuildCommand(LaunchSerial(args, main_devices),
                                 args.video_codec, args.max_size, args.max_fps,
                                 LaunchAudio(args), args.keyboard_mode)
                  e == CheckOutputRaises(r)
              IN
               /\ stdout' = stdout
                      \o (IF args.verbose THEN FoundLines(main_devices) ELSE <<>>)
                      \o (IF args.verbose THEN <<CommandEchoLine(command)>> ELSE <<>>)
               /\ calls' = Append(calls, Call(command, r, <<>>))
               /\ IF e = "none"
                  THEN /\ exitCode' = 0
                       /\ pc' = "done"
                       /\ UNCHANGED stderr
                  ELSE IF LaunchCatches(e)
                  THEN /\ stderr' = Append(stderr, LaunchErrorLine(e))
                       /\ exitCode' = 0
                       /\ pc' = "done"
                  ELSE /\ exitCode' = 1
                       /\ pc' = "crashed"
                       /\ UNCHANGED stderr
       ELSE /\ exitCode' = 1
            /\ pc' = "done"
            /\ UNCHANGED <<stdout, stderr, calls>>
    /\ UNCHANGED <<argv, args, adb, verbose, lines, idx, devices, main_devices>>

\* ----------------------------------------------------------specifications
NextLister == GadList \/ GadLine \/ GadReturn

Next == ParseArgs \/ Main \/ GadList \/ GadLine \/ GadReturn
        \/ PrintDevices \/ LaunchOrExit

\* The whole program.
Spec == Init /\ [][Next]_vars

\* get_android_devices alone.
SpecLister == InitLister /\ [][NextLister]_vars

\* ============================================================= properties
Range(seq) == {seq[i] : i \in 1..Len(seq)}

\* str.split(): the whitespace-separated fields of a line.
RECURSIVE Fields(_)
Fields(s) ==
    LET t  == Strip(s)
        sp == {i \in 1..Len(t) : t[i] \in SpaceChars}
    IN  IF t = <<>> THEN <<>>
        ELSE IF sp = {} THEN <<t>>
        ELSE <<SubSeq(t, 1, MinOf(sp) - 1)>>
             \o Fields(SubSeq(t, MinOf(sp), Len(t)))

\* A listing line that reports an attached device in the state "device".
ReadyEntry(line) ==
    /\ Len(Fields(line)) >= 2
    /\ Fields(line)[2] = S_device
    /\ ~StartsWith(line, "*")

IsQuery(c) == Len(c.cmd) = 6 /\ c.cmd[1] = S_adb /\ c.cmd[4] = S_shell

IsLaunch(c) == c.cmd[1] = S_scrcpy

QueryOk(c) == c.exit = 0 /\ ParseInt(c.out).ok

Queries == SelectSeq(calls, IsQuery)

IsFailedQuery(c) == IsQuery(c) /\ ~QueryOk(c)

IsGoodQuery(c) == IsQuery(c) /\ QueryOk(c)

Launches == SelectSeq(calls, IsLaunch)

ListingSucceeded == adb.exit = 0

\* ------------------------------------------------------------------- C1
\* C1: when get_android_devices returns after a successful listing, there
\* is exactly one record for every listed device whose state is "device"
\* (a device whose API-level query failed excepted, as C3 says), and no
\* record for any other line.
C1_RecordForEveryReadyDevice ==
    (pc = "gad_ret" /\ ListingSucceeded) =>
        LET all == SplitLines(adb.out) IN
        /\ \A k \in 1..Len(all) :
              ReadyEntry(all[k]) =>
                 \/ \E i \in 1..Len(main_devices) :
                       main_devices[i].serial = Fields(all[k])[1]
                 \/ \E c \in Range(calls) :
                       IsFailedQuery(c) /\ c.cmd[3] = Fields(all[k])[1]
        /\ \A i \in 1..Len(main_devices) :
              /\ \E k \in 1..Len(all) :
                    /\ ReadyEntry(all[k])
                    /\ Fields(all[k])[1] = main_devices[i].serial
              /\ \A j \in 1..Len(main_devices) :
                    main_devices[j].serial = main_devices[i].serial => i = j

\* ------------------------------------------------------------------- C2
\* C2: in every record get_android_devices builds or returns, the flag
\* audio_possible is true exactly when sdk_version is at least 30, and
\* sdk_version is the integer the device's query printed.
C2_AudioIffSdkAtLeast30 ==
    /\ \A d \in Range(devices) \cup Range(main_devices) :
          d.audio_possible <=> (d.sdk_version >= 30)
    /\ \A d \in Range(devices) \cup Range(main_devices) :
          \E c \in Range(calls) :
             /\ IsGoodQuery(c)
             /\ c.cmd[3] = d.serial
             /\ IntToStr(d.sdk_version) = Strip(c.out)

\* C2 witness: two devices returned, one at level 30 with the flag and one
\* at level 29 without it.
C2_Witness ==
    /\ pc = "gad_ret"
    /\ \E d \in Range(main_devices) : d.sdk_version = 30 /\ d.audio_possible
    /\ \E d \in Range(main_devices) : d.sdk_version = 29 /\ ~d.audio_possible

\* ------------------------------------------------------------------- C3
Serials(ds) == [i \in 1..Len(ds) |-> ds[i].serial]

CallSerials(cs) == [i \in 1..Len(cs) |-> cs[i].cmd[3]]

\* Position in the listing of the line a record was made from.
LinePos(d) == CHOOSE k \in 1..Len(lines) : Strip(lines[k]) = d.full_info

\* The exception a failed query died of.
QueryFailure(c) == IF c.exit # 0 THEN "CalledProcessError" ELSE "ValueError"

\* C3: get_android_devices never raises because of a failing query; after
\* a successful listing the records are exactly the devices whose query
\* succeeded, in listing order, and standard error holds one line per
\* failed query if verbose and nothing otherwise.
C3_FailedQueryOmitsOnlyThatDevice ==
    /\ pc # "crashed"
    /\ (ListingSucceeded /\ pc \in {"gad_loop", "gad_ret"}) =>
          /\ Serials(devices) = CallSerials(SelectSeq(calls, IsGoodQuery))
          /\ \A i, j \in 1..Len(devices) :
                i < j => LinePos(devices[i]) < LinePos(devices[j])
          /\ LET failed == SelectSeq(calls, IsFailedQuery) IN
             IF verbose
             THEN /\ Len(stderr) = Len(failed)
                  /\ \A i \in 1..Len(failed) :
                        /\ stderr[i][1] = "Error getting SDK version for {serial}: {e}"
                        /\ stderr[i][2] = <<failed[i].cmd[3], <<QueryFailure(failed[i])>>>>
             ELSE stderr = <<>>
          /\ pc = "gad_ret" => main_devices = devices

\* C3 witness: verbose, the first device's query printed no integer, the
\* second device's query succeeded and that device alone is returned.
C3_Witness ==
    /\ pc = "gad_ret"
    /\ verbose
    /\ Len(calls) = 3
    /\ calls[2].exit = 0 /\ IsFailedQuery(calls[2])
    /\ IsGoodQuery(calls[3])
    /\ Serials(main_devices) = <<calls[3].cmd[3]>>
    /\ Len(stderr) = 1

\* ------------------------------------------------------------------- C4
\* C4: when adb is missing or `adb devices -l` exits non-zero,
\* get_android_devices does not raise, writes one error line to standard
\* error and returns the empty list, which is also what it returns for a
\* listing without entries.
C4_ListingFailureReturnsEmpty ==
    /\ ~ListingSucceeded => pc # "crashed"
    /\ (pc = "gad_ret" /\ ~ListingSucceeded) =>
          /\ main_devices = <<>>
          /\ Len(stderr) = 1
          /\ stderr[1][1] = IF adb.exit = -1
                            THEN "Error: adb not found. Make sure it's in your PATH."
                            ELSE "Error communicating with adb: {e}"
    /\ (pc = "gad_ret" /\ ListingSucceeded
          /\ \A k \in 1..Len(SplitLines(adb.out)) : ~ReadyEntry(SplitLines(adb.out)[k]))
       => main_devices = <<>>

\* C4 witness: get_android_devices has returned although adb was not found.
C4_Witness ==
    /\ pc = "gad_ret"
    /\ adb.exit = -1
    /\ main_devices = <<>>
    /\ Len(calls) = 1

\* ------------------------------------------------------------------- C5
\* C5: once scrcpy has been run, whatever its outcome, launch_scrcpy has
\* returned and the program ends with status 0; when scrcpy was missing or
\* exited non-zero the last line of standard error reports it.
C5_LaunchFailureSwallowed ==
    Launches # <<>> =>
        LET r == Launches[1].exit IN
        /\ pc = "done"
        /\ exitCode = 0
        /\ r = -1 =>
              /\ stderr # <<>>
              /\ stderr[Len(stderr)][1] =
                   "Error: scrcpy not found. Make sure it's installed and in your PATH."
        /\ r \notin {0, -1} =>
              /\ stderr # <<>>
              /\ stderr[Len(stderr)][1] = "Error running scrcpy: {e}"

\* C5 witness: scrcpy exited non-zero and the program is over.
C5_Witness ==
    /\ pc = "done"
    /\ Launches # <<>>
    /\ Launches[1].exit = 1

\* ------------------------------------------------------------------- C6
\* C6: outside list mode the program exits with 1 when no serial was given
\* (having printed the error and the usage and run no child process) and
\* when a serial was given but get_android_devices returned nothing; an
\* exit with 1 never follows a launch; list mode exits with 0.
C6_ExitCodes ==
    /\ (pc \in {"done", "crashed"} /\ ~args.list_devices /\ argv.serial = Null) =>
          /\ exitCode = 1
          /\ calls = <<>>
          /\ Len(stdout) = 2
          /\ stdout[1][1] =
               "Error: Serial number (-s) is required unless --list-devices is used."
          /\ stdout[2][1] = "usage: ..."
    /\ (pc \in {"done", "crashed"} /\ ~args.list_devices /\ argv.serial # Null
          /\ main_devices = <<>>) => exitCode = 1
    /\ exitCode = 1 => Launches = <<>>
    /\ (pc \in {"gad_ret", "done", "crashed"} /\ args.list_devices) =>
          (pc # "crashed" /\ exitCode \in {-1, 0})
    /\ (pc = "done" /\ args.list_devices) => exitCode = 0

\* C6 witness: a serial was given, adb listed a device that is not ready,
\* and the program exited with 1 without launching.
C6_Witness ==
    /\ pc = "done"
    /\ ~args.list_devices
    /\ TruthyStr(argv.serial)
    /\ ListingSucceeded
    /\ Len(lines) = 2
    /\ main_devices = <<>>
    /\ exitCode = 1

\* ------------------------------------------------------------------- C7
\* C7: in list mode, when get_android_devices returned nothing, standard
\* output is the one line "No devices found.", the exit status is 0 and
\* scrcpy is never run, with or without --serial.
C7_ListModeNoDevices ==
    /\ args.list_devices => Launches = <<>>
    /\ (pc \in {"done", "crashed"} /\ args.list_devices /\ main_devices = <<>>) =>
          /\ stdout = <<<<"No devices found.", <<>>>>>>
          /\ exitCode = 0

\* C7 witness: list mode with a serial given, the only ready device's
\* query failed, and the program is over.
C7_Witness ==
    /\ pc = "done"
    /\ args.list_devices
    /\ TruthyStr(argv.serial)
    /\ SelectSeq(calls, IsFailedQuery) # <<>>
    /\ main_devices = <<>>

\* ------------------------------------------------------------------- C8
\* The token contains "audio".
MentionsAudio(tok) ==
    \E i \in 1..(Len(tok) - 4) : SubSeq(tok, i, i + 4) = <<"a", "u", "d", "i", "o">>

\* C8: the command scrcpy is run with contains --no-audio exactly when
\* --no-audio was given on the command line, and no other token about
\* audio.
C8_NoAudioFlag ==
    \A c \in Range(Launches) :
        /\ (S_no_audio \in Range(c.cmd)) <=> argv.no_audio
        /\ \A tok \in Range(c.cmd) : MentionsAudio(tok) => tok = S_no_audio

\* C8 witness: scrcpy was run with --no-audio given, together with a codec,
\* a size, a frame rate and the uhid keyboard.
C8_Witness ==
    /\ Launches # <<>>
    /\ argv.no_audio
    /\ TruthyStr(args.video_codec)
    /\ TruthyInt(args.max_size)
    /\ TruthyInt(args.max_fps)
    /\ args.keyboard_mode = S_uhid

\* ------------------------------------------------------------------- C9
\* The token is a keyboard option of scrcpy.
MentionsKeyboard(tok) ==
    \/ Len(tok) >= 10 /\ SubSeq(tok, 1, 10) = <<"-", "-", "k", "e", "y", "b", "o", "a", "r", "d">>
    \/ tok = <<"-", "K">>

\* C9: the command scrcpy is run with contains --keyboard=uhid exactly when
\* the keyboard mode is uhid, and no keyboard option at all when the mode
\* is default or --keyboard-mode was not given.
C9_KeyboardFlag ==
    \A c \in Range(Launches) :
        /\ (S_keyboard_uhid \in Range(c.cmd)) <=>
              (argv.keyboard_mode = Some(S_uhid))
        /\ (argv.keyboard_mode \in {Null, Some(S_default)}) =>
              \A tok \in Range(c.cmd) : ~MentionsKeyboard(tok)

\* C9 witness: scrcpy was run with --keyboard-mode uhid and carries the
\* flag, audio being disabled as well.
C9_Witness ==
    /\ Launches # <<>>
    /\ argv.keyboard_mode = Some(S_uhid)
    /\ argv.no_audio
    /\ S_keyboard_uhid \in Range(Launches[1].cmd)

\* ------------------------------------------------------------------ C10
\* C10: scrcpy is run at most once; outside list mode with a serial given it
\* has been run by the end exactly when get_android_devices returned a
\* record; it is the last child process, run after the listing and after
\* the query of every selected line; and its serial is the one given on the
\* command line.
C10_LaunchOnceAfterListing ==
    /\ Len(Launches) <= 1
    /\ (pc \in {"done", "crashed"} /\ ~args.list_devices /\ argv.serial # Null) =>
          (Len(Launches) = 1 <=> main_devices # <<>>)
    /\ Launches # <<>> =>
          /\ ~args.list_devices
          /\ IsLaunch(calls[Len(calls)])
          /\ calls[1].cmd = ListCommand
          /\ idx = Len(lines) + 1
          /\ Len(Queries) = Cardinality({k \in 1..Len(lines) : LineSelected(lines[k])})
          /\ Len(calls) = Len(Queries) + 2
          /\ Launches[1].cmd[2] = S_s
          /\ Launches[1].cmd[3] = argv.serial[1]

\* C10 witness: scrcpy was run for a serial that is not among the records
\* get_android_devices returned.
C10_Witness ==
    /\ pc = "done"
    /\ Launches # <<>>
    /\ main_devices # <<>>
    /\ \A d \in Range(main_devices) : d.serial # argv.serial[1]
    /\ Launches[1].cmd[3] = argv.serial[1]

====
